---- MODULE Spec2Model ----
(***************************************************************************)
(* Model of celery_worker.py: the Celery task process_video_assessment.    *)
(* One worker executes the task body sequentially; the persistent storage  *)
(* (assessments, editors) survives from one execution to the next.         *)
(* Scores are held in hundredths (0.75 is 75): every comparison in the     *)
(* code is between a parsed decimal literal and a decimal literal.         *)
(***************************************************************************)
EXTENDS Integers, Sequences, FiniteSets, TLC

\* ---------------------------------------------------------------- bounds
MaxRuns == 2

\* ------------------------------------------------------ program constants
PassScore == 75
Badge3Above == 92
Badge2Above == 82
FenceLen == 7
FenceTail == 3

\* ------------------------------------------------------------- storage ids
StoredIds == {"a1", "a2"}
MissingIds == {"a9"}
AssessmentIds == StoredIds \cup MissingIds
StoredEditors == {"e1"}
\* both assessments are submissions of the same editor
EditorOf(a) == "e1"

MediaStates == {"PROCESSING", "ACTIVE", "FAILED", "STATE_UNSPECIFIED"}

\* ------------------------------------------------------- response text
\* A response is a sequence of characters.  The characters of the fence
\* (backtick, j, s, o, n), whitespace and braces are single characters;
\* a JSON member ("score": x  or  "critique": "...") is one element.
Ch(k) == [k |-> k, v |-> 0]
ScoreMember(x) == [k |-> "score", v |-> x]
BadScoreMember == [k |-> "scoreNaN", v |-> 0]
CritMember(i) == [k |-> "critique", v |-> i]
CritText(i) == IF i = 1 THEN "Good" ELSE "Weak"

Fence == <<Ch("tick"), Ch("tick"), Ch("tick"), Ch("j"), Ch("s"), Ch("o"), Ch("n")>>
Ticks == <<Ch("tick"), Ch("tick"), Ch("tick")>>
Obj(members) == <<Ch("{")>> \o members \o <<Ch("}")>>
Fenced(body) == Fence \o <<Ch("ws")>> \o body \o <<Ch("ws")>> \o Ticks

\* verdict objects, and the ways a model wraps one in a markdown fence
VerdictObjects ==
  { Obj(<<ScoreMember(85), CritMember(1)>>),
    Obj(<<Ch("ws"), ScoreMember(93), Ch("ws"), CritMember(1), Ch("ws")>>),
    Obj(<<ScoreMember(85)>>),
    Obj(<<CritMember(1)>>),
    Obj(<<>>) }
FenceWraps(o) ==
  { Fenced(o),
    <<Ch("ws")>> \o Fence \o o \o Ticks \o <<Ch("ws"), Ch("ws")>> }
FencedReplies == UNION {FenceWraps(o) : o \in VerdictObjects}

\* scores outside the scale the prompt asks for
OffScaleReplies ==
  { Obj(<<ScoreMember(150), CritMember(1)>>),
    Obj(<<ScoreMember(-10), CritMember(2)>>) }

OtherReplies ==
  { Obj(<<ScoreMember(75), CritMember(1)>>),
    Obj(<<ScoreMember(82), CritMember(1)>>),
    Obj(<<ScoreMember(92), CritMember(1)>>),
    <<Ch("ws")>> \o Obj(<<CritMember(1), ScoreMember(74)>>) \o <<Ch("ws")>>,
    Fenced(Obj(<<ScoreMember(85), CritMember(1)>>)),
    Fence \o Obj(<<ScoreMember(80), CritMember(2)>>),
    Obj(<<BadScoreMember, CritMember(1)>>),
    Obj(<<ScoreMember(85), Ch("txt")>>),
    <<Ch("txt"), Ch("txt")>>,
    Fence \o <<Ch("ws"), Ch("txt")>> \o Obj(<<ScoreMember(85)>>) \o Ticks }

\* response.text: what generate_content can answer
Replies == OtherReplies \cup VerdictObjects \cup FencedReplies \cup OffScaleReplies

\* str.strip(): drop leading and trailing whitespace
RECURSIVE LStrip(_)
LStrip(s) == IF s # <<>> /\ Head(s).k = "ws" THEN LStrip(Tail(s)) ELSE s
RECURSIVE RStrip(_)
RStrip(s) ==
  IF s # <<>> /\ s[Len(s)].k = "ws" THEN RStrip(SubSeq(s, 1, Len(s) - 1)) ELSE s
Strip(s) == RStrip(LStrip(s))

\* str.startswith
StartsWith(s, p) == Len(s) >= Len(p) /\ SubSeq(s, 1, Len(p)) = p

SliceFenceTicksOnly(s) ==
  IF Len(s) <= FenceTail + FenceTail THEN <<>>
  ELSE SubSeq(s, FenceTail + 1, Len(s) - FenceTail)
\* s[7:-3]
SliceFence(s) ==
  IF Len(s) <= FenceLen + FenceTail THEN <<>>
  ELSE SubSeq(s, FenceLen + 1, Len(s) - FenceTail)

\* lines 99-102
Unfence(text) ==
  LET t == Strip(text)
  IN IF StartsWith(t, Fence) THEN Strip(SliceFence(t)) ELSE t

\* str.replace(backtick, '')
RECURSIVE DropTicks(_)
DropTicks(s) ==
  IF s = <<>> THEN <<>>
  ELSE IF Head(s).k = "tick" THEN DropTicks(Tail(s))
       ELSE <<Head(s)>> \o DropTicks(Tail(s))

\* str.replace('json', '')
JsonWord == <<Ch("j"), Ch("s"), Ch("o"), Ch("n")>>
RECURSIVE DropJson(_)
DropJson(s) ==
  IF s = <<>> THEN <<>>
  ELSE IF StartsWith(s, JsonWord) THEN DropJson(SubSeq(s, 5, Len(s)))
       ELSE <<Head(s)>> \o DropJson(Tail(s))

\* line 108
Clean(s) == DropJson(DropTicks(s))

\* json.loads: whitespace between tokens is ignored; the text must be one
\* object whose members are key/value pairs
RECURSIVE DropWs(_)
DropWs(s) ==
  IF s = <<>> THEN <<>>
  ELSE IF Head(s).k = "ws" THEN DropWs(Tail(s))
       ELSE <<Head(s)>> \o DropWs(Tail(s))

MemberKinds == {"score", "scoreNaN", "critique"}

JsonValid(s) ==
  LET t == DropWs(s)
  IN /\ Len(t) >= 2
     /\ t[1].k = "{"
     /\ t[Len(t)].k = "}"
     /\ \A i \in 2..(Len(t) - 1) : t[i].k \in MemberKinds

\* the members of the decoded object (a later duplicate key wins)
Members(s) == LET t == DropWs(s) IN SubSeq(t, 2, Len(t) - 1)
LastOf(ms, kinds) ==
  LET idx == {i \in 1..Len(ms) : ms[i].k \in kinds}
  IN IF idx = {} THEN 0 ELSE CHOOSE i \in idx : \A j \in idx : j <= i

DefaultCritique == "No critique provided."
NotJsonFormat == "AI response is not in the expected JSON format."

\* lines 108-111: cleanup, json.loads, then the two lookups with defaults
\*   [ok |-> TRUE, score, critique]  or  [ok |-> FALSE, err]
ParseObject(t) ==
  LET c == Clean(t)
  IN IF ~ JsonValid(c)
     THEN [ok |-> FALSE, err |-> "JSONDecodeError", score |-> 0, critique |-> ""]
     ELSE
       LET ms == Members(c)
           si == LastOf(ms, {"score", "scoreNaN"})
           ci == LastOf(ms, {"critique"})
       IN IF si # 0 /\ ms[si].k = "scoreNaN"
          THEN [ok |-> FALSE, err |-> "could not convert to float",
                score |-> 0, critique |-> ""]
          ELSE [ok |-> TRUE, err |-> "",
                score |-> IF si = 0 THEN 0 ELSE ms[si].v,
                critique |-> IF ci = 0 THEN DefaultCritique
                             ELSE CritText(ms[ci].v)]

ParseVerdictLenient(text) ==
  LET t == Unfence(text)
  IN IF ~ StartsWith(t, <<Ch("{")>>)
     THEN [ok |-> TRUE, err |-> "", score |-> 0, critique |-> DefaultCritique]
     ELSE ParseObject(t)
\* lines 99-111: the outcome of parsing a response text
ParseVerdict(text) ==
  LET t == Unfence(text)
  IN IF ~ StartsWith(t, <<Ch("{")>>)
     THEN [ok |-> FALSE, err |-> NotJsonFormat, score |-> 0, critique |-> ""]
     ELSE ParseObject(t)

\* lines 99-111 applied to each text the model can answer with
Verdicts == [r \in Replies |-> ParseVerdict(r)]

\* ------------------------------------------------------------------ state
VARIABLES
  dbA,          \* committed assessments: id -> row
  dbE,          \* committed editors: id -> badge_level
  pc,           \* position of the worker in the task body
  runs,         \* task executions started so far
  aid,          \* the assessment_id argument
  assessment,   \* TRUE when the local variable assessment holds a record
  ai_score,     \* the local variable ai_score
  ai_critique,  \* the local variable ai_critique
  sess,         \* attribute changes pending in the session (not yet committed)
  dbOpen,       \* TRUE while the session of this execution is open
  tempFile,     \* "none", "exists" or "deleted": the NamedTemporaryFile
  mediaState,   \* video_file.state.name as last observed
  response,     \* response.text
  err,          \* str(e) of the exception being handled
  returning,    \* TRUE when the return of line 32 is pending through finally
  raised,       \* TRUE when an exception propagates out of the task
  final_status, \* the local variable final_status
  result,       \* what the task handed back to the dispatcher
  \* history of the current execution
  commits,      \* the assessment status made durable by each commit, in order
  wrote,        \* assessment attributes assigned through the session
  badge0,       \* dbE when the execution started
  stage,        \* the stage that raised, "none" when nothing raised
  parsed,       \* TRUE when lines 99-111 produced a verdict
  badgeSet,     \* TRUE when line 120-122 assigned editor.badge_level
  closes,       \* db.close() calls of this execution
  lastCall,     \* the latest external call of this execution: "none",
                \* "download", "upload", "get_file" or "generate"
  \* history across executions
  lastApproved  \* editor -> score of the latest committed approval of one of
                \* the editor's assessments, NoApproval before the first

vars == <<dbA, dbE, pc, runs, aid, assessment, ai_score, ai_critique, sess, dbOpen, tempFile,
          mediaState, response, err, returning, raised, final_status, result,
          commits, wrote, badge0, stage, parsed, badgeSet, closes,
          lastCall, lastApproved>>

NoApproval == [seen |-> FALSE, score |-> 0]
AssessmentFields == {"status", "ai_score", "human_reviewer_notes"}
NoNotes == [kind |-> "none", text |-> ""]
CritiqueNote(c) == [kind |-> "critique", text |-> c]
\* line 133
ErrorNote(e) == [kind |-> "error", text |-> e]

CleanSession ==
  [dirty |-> {}, status |-> "", ai_score |-> 0, notes |-> NoNotes, badge |-> 0]
NoResult == [kind |-> "none", assessment_id |-> "", status |-> "", score |-> 0]

\* the row with the session's pending attribute changes applied
Flushed(row, s) ==
  [status |-> IF "status" \in s.dirty THEN s.status ELSE row.status,
   ai_score |-> IF "ai_score" \in s.dirty THEN s.ai_score ELSE row.ai_score,
   human_reviewer_notes |->
      IF "human_reviewer_notes" \in s.dirty THEN s.notes
      ELSE row.human_reviewer_notes,
   editor_id |-> row.editor_id]

\* db.commit() succeeding: pending changes become durable, the session is clean
CommitA(s) == [dbA EXCEPT ![aid] = Flushed(@, s)]
CommitE(s) ==
  IF "badge_level" \in s.dirty
  THEN [dbE EXCEPT ![dbA[aid].editor_id] = s.badge]
  ELSE dbE

RolledBackKeepsPending(s) == s
\* db.commit() raising: the session rolls back and drops its pending changes
RolledBack(s) == CleanSession

Init ==
  /\ dbA = [a \in StoredIds |->
              [status |-> "pending", ai_score |-> 0,
               human_reviewer_notes |-> NoNotes, editor_id |-> EditorOf(a)]]
  /\ \E es \in SUBSET StoredEditors : dbE = [e \in es |-> 0]
  /\ pc = "idle"
  /\ runs = 0
  /\ aid = "a1"
  /\ assessment = FALSE
  /\ ai_score = 0
  /\ ai_critique = ""
  /\ sess = CleanSession
  /\ dbOpen = FALSE
  /\ tempFile = "none"
  /\ mediaState = "PROCESSING"
  /\ response = <<>>
  /\ err = ""
  /\ returning = FALSE
  /\ raised = FALSE
  /\ final_status = ""
  /\ result = NoResult
  /\ commits = <<>>
  /\ wrote = {}
  /\ badge0 = dbE
  /\ stage = "none"
  /\ parsed = FALSE
  /\ badgeSet = FALSE
  /\ closes = 0
  /\ lastCall = "none"
  /\ lastApproved = [e \in StoredEditors |-> NoApproval]

\* lines 21-26: the dispatcher invokes the task; session opened, locals set
Begin(a) ==
  /\ pc \in {"idle", "done"}
  /\ runs < MaxRuns
  /\ runs' = runs + 1
  /\ aid' = a
  /\ assessment' = FALSE
  /\ ai_score' = 0
  /\ ai_critique' = ""
  /\ sess' = CleanSession
  /\ dbOpen' = TRUE
  /\ tempFile' = "none"
  /\ mediaState' = "PROCESSING"
  /\ response' = <<>>
  /\ err' = ""
  /\ returning' = FALSE
  /\ raised' = FALSE
  /\ final_status' = ""
  /\ result' = NoResult
  /\ commits' = <<>>
  /\ wrote' = {}
  /\ badge0' = dbE
  /\ stage' = "none"
  /\ parsed' = FALSE
  /\ badgeSet' = FALSE
  /\ closes' = 0
  /\ lastCall' = "none"
  /\ pc' = "query"
  /\ UNCHANGED <<lastApproved, dbA, dbE>>

\* an exception raised in the try body at the given stage: control goes to
\* the except clause of line 129
Raise(e, st) ==
  /\ err' = e
  /\ stage' = st
  /\ pc' = "handler"

\* lines 29-32: no record, the bare return runs the finally clause
LoadAbsent ==
  /\ pc = "query"
  /\ aid \notin DOMAIN dbA
  /\ returning' = TRUE
  /\ pc' = "finally"
  /\ UNCHANGED <<lastCall, lastApproved, dbA, dbE, runs, aid, assessment, ai_score, ai_critique, sess, dbOpen,
                 tempFile, mediaState, response, err, raised, final_status,
                 result, commits, wrote, badge0, stage, parsed, badgeSet, closes>>

\* lines 35: assessment.status = processing
MarkProcessing(s) ==
  [s EXCEPT !.dirty = @ \cup {"status"}, !.status = "processing"]

LoadPresentDeferred ==
  /\ pc = "query"
  /\ aid \in DOMAIN dbA
  /\ assessment' = TRUE
  /\ sess' = MarkProcessing(sess)
  /\ wrote' = wrote \cup (MarkProcessing(sess).dirty \cap AssessmentFields)
  /\ pc' = "download"
  /\ UNCHANGED <<lastCall, lastApproved, dbA, dbE, commits, runs, aid, ai_score,
                 ai_critique, dbOpen, tempFile, mediaState, response, err,
                 returning, raised, final_status, result, badge0, stage,
                 parsed, badgeSet, closes>>
\* lines 29-36: record found, status processing committed on its own
LoadPresent ==
  /\ pc = "query"
  /\ aid \in DOMAIN dbA
  /\ assessment' = TRUE
  /\ LET s == MarkProcessing(sess)
     IN /\ dbA' = CommitA(s)
        /\ dbE' = CommitE(s)
        /\ commits' = Append(commits, s.status)
  /\ sess' = CleanSession
  /\ wrote' = wrote \cup (MarkProcessing(sess).dirty \cap AssessmentFields)
  /\ pc' = "download"
  /\ UNCHANGED <<lastCall, lastApproved, runs, aid, ai_score, ai_critique, dbOpen, tempFile, mediaState, response,
                 err, returning, raised, final_status, result, badge0, stage,
                 parsed, badgeSet, closes>>

\* lines 39-47: the temporary file is created (delete=False), then filled
DownloadOk ==
  /\ pc = "download"
  /\ tempFile' = "exists"
  /\ pc' = "upload"
  /\ lastCall' = "download"
  /\ UNCHANGED <<lastApproved, dbA, dbE, runs, aid, assessment, ai_score, ai_critique, sess, dbOpen,
                 mediaState, response, err, returning, raised, final_status,
                 result, commits, wrote, badge0, stage, parsed, badgeSet, closes>>

\* lines 42-46: requests.get / raise_for_status / iter_content raises after
\* the file was created; leaving the with block closes but keeps the file
DownloadFails ==
  /\ pc = "download"
  /\ tempFile' = "exists"
  /\ Raise("download failed", "download")
  /\ lastCall' = "download"
  /\ UNCHANGED <<lastApproved, dbA, dbE, runs, aid, assessment, ai_score, ai_critique, sess, dbOpen,
                 mediaState, response, returning, raised, final_status,
                 result, commits, wrote, badge0, parsed, badgeSet,
                 closes>>

\* lines 55-59: upload_file returns a handle, then os.unlink
UnlinkAfterUpload(f) == "deleted"
UploadOk ==
  /\ pc = "upload"
  /\ \E st \in MediaStates : mediaState' = st
  /\ tempFile' = UnlinkAfterUpload(tempFile)
  /\ pc' = "check"
  /\ lastCall' = "upload"
  /\ UNCHANGED <<lastApproved, dbA, dbE, runs, aid, assessment, ai_score, ai_critique, sess, dbOpen,
                 response, err, returning, raised, final_status, result,
                 commits, wrote, badge0, stage, parsed, badgeSet,
                 closes>>

\* line 55: upload_file raises; line 59 is skipped
UploadFails ==
  /\ pc = "upload"
  /\ Raise("upload failed", "upload")
  /\ lastCall' = "upload"
  /\ UNCHANGED <<lastApproved, dbA, dbE, runs, aid, assessment, ai_score, ai_critique, sess, dbOpen,
                 tempFile, mediaState, response, returning, raised,
                 final_status, result, commits, wrote, badge0, parsed,
                 badgeSet, closes>>

\* line 71: the message carries the final state
MediaError(st) ==
  IF st = "FAILED" THEN "File processing failed. Final state: FAILED"
  ELSE IF st = "STATE_UNSPECIFIED"
       THEN "File processing failed. Final state: STATE_UNSPECIFIED"
       ELSE "File processing failed. Final state: other"

NotActiveOnlyFailed(st) == st = "FAILED"
\* line 70
NotActive(st) == st # "ACTIVE"

\* lines 64 and 70: the loop test, then the ACTIVE test
CheckState ==
  /\ pc = "check"
  /\ IF mediaState = "PROCESSING"
     THEN /\ pc' = "sleep"
          /\ UNCHANGED <<err, stage>>
     ELSE IF NotActive(mediaState)
          THEN Raise(MediaError(mediaState), "media")
          ELSE /\ pc' = "generate"
               /\ UNCHANGED <<err, stage>>
  /\ UNCHANGED <<lastCall, lastApproved, dbA, dbE, runs, aid, assessment, ai_score, ai_critique, sess, dbOpen,
                 tempFile, mediaState, response, returning, raised,
                 final_status, result, commits, wrote, badge0, parsed,
                 badgeSet, closes>>

\* lines 66-68: sleep 5 seconds, then get_file reports the state
Poll ==
  /\ pc = "sleep"
  /\ \E st \in MediaStates : mediaState' = st
  /\ pc' = "check"
  /\ lastCall' = "get_file"
  /\ UNCHANGED <<lastApproved, dbA, dbE, runs, aid, assessment, ai_score, ai_critique, sess, dbOpen,
                 tempFile, response, err, returning, raised, final_status,
                 result, commits, wrote, badge0, stage, parsed, badgeSet,
                 closes>>

\* line 68: get_file raises
PollFails ==
  /\ pc = "sleep"
  /\ Raise("get_file failed", "media")
  /\ lastCall' = "get_file"
  /\ UNCHANGED <<lastApproved, dbA, dbE, runs, aid, assessment, ai_score, ai_critique, sess, dbOpen,
                 tempFile, mediaState, response, returning, raised,
                 final_status, result, commits, wrote, badge0, parsed,
                 badgeSet, closes>>

\* lines 93-95: the model answers with free text
GenerateOk ==
  /\ pc = "generate"
  /\ \E r \in Replies : response' = r
  /\ pc' = "parse"
  /\ lastCall' = "generate"
  /\ UNCHANGED <<lastApproved, dbA, dbE, runs, aid, assessment, ai_score, ai_critique, sess, dbOpen,
                 tempFile, mediaState, err, returning, raised, final_status,
                 result, commits, wrote, badge0, stage, parsed, badgeSet, closes>>

\* line 93: generate_content raises
GenerateFails ==
  /\ pc = "generate"
  /\ Raise("generate failed", "inference")
  /\ lastCall' = "generate"
  /\ UNCHANGED <<lastApproved, dbA, dbE, runs, aid, assessment, ai_score, ai_critique, sess, dbOpen,
                 tempFile, mediaState, response, returning, raised,
                 final_status, result, commits, wrote, badge0, parsed,
                 badgeSet, closes>>


PassesStrictly(score) == score > PassScore
\* line 116
Passes(score) == score >= PassScore

BadgeForInclusive(score) ==
  IF score >= Badge3Above THEN 3
  ELSE IF score >= Badge2Above THEN 2
  ELSE 1
\* lines 120-122
BadgeFor(score) ==
  IF score > Badge3Above THEN 3
  ELSE IF score > Badge2Above THEN 2
  ELSE 1

\* line 118: db.query(models.Editor).filter_by(id=assessment.editor_id).first()
EditorFound(a) == dbA[a].editor_id \in DOMAIN dbE

BadgeWriteUnguarded(found, score) ==
  [set |-> found, level |-> BadgeFor(score), raises |-> ~ found]
BadgeWriteNeverLowers(found, score) ==
  [set |-> found,
   level |-> IF found /\ dbE[dbA[aid].editor_id] > BadgeFor(score)
             THEN dbE[dbA[aid].editor_id] ELSE BadgeFor(score),
   raises |-> FALSE]
\* lines 119-122: what the approval branch does with the looked-up editor
BadgeWrite(found, score) ==
  [set |-> found, level |-> BadgeFor(score), raises |-> FALSE]

\* lines 113-124: the attribute assignments of the state update
StateUpdate(s, score, critique, found) ==
  LET bw == BadgeWrite(found, score)
      s1 == [s EXCEPT !.dirty = @ \cup {"ai_score", "human_reviewer_notes", "status"},
                      !.ai_score = score,
                      !.notes = CritiqueNote(critique),
                      !.status = IF Passes(score) THEN "approved" ELSE "rejected"]
  IN IF Passes(score) /\ bw.set
     THEN [s1 EXCEPT !.dirty = @ \cup {"badge_level"}, !.badge = bw.level]
     ELSE s1

\* lines 99-111 raising: not JSON, undecodable, or score not a number
ParseFails ==
  /\ pc = "parse"
  /\ LET v == Verdicts[response]
     IN /\ ~ v.ok
        /\ Raise(v.err, "parse")
  /\ UNCHANGED <<lastCall, lastApproved, dbA, dbE, runs, aid, assessment, ai_score, ai_critique, sess, dbOpen,
                 tempFile, mediaState, response, returning, raised,
                 final_status, result, commits, wrote, badge0, parsed,
                 badgeSet, closes>>

\* lines 99-111: a verdict is parsed into ai_score and ai_critique
ParseOk ==
  /\ pc = "parse"
  /\ LET v == Verdicts[response]
     IN /\ v.ok
        /\ ai_score' = v.score
        /\ ai_critique' = v.critique
  /\ parsed' = TRUE
  /\ pc' = "update"
  /\ UNCHANGED <<lastCall, lastApproved, dbA, dbE, runs, aid, assessment, sess, dbOpen, tempFile,
                 mediaState, response, err, returning, raised, final_status,
                 result, commits, wrote, badge0, stage, badgeSet,
                 closes>>

\* lines 113-127: attributes assigned, then one commit
Update ==
  /\ pc = "update"
  /\ LET found == EditorFound(aid)
         bw == BadgeWrite(found, ai_score)
         s == StateUpdate(sess, ai_score, ai_critique, found)
     IN /\ wrote' = wrote \cup (s.dirty \cap AssessmentFields)
        /\ IF Passes(ai_score) /\ bw.raises
           THEN \* the exception leaves the assignments pending in the session
                /\ sess' = s
                /\ Raise("editor lookup returned None", "update")
                /\ UNCHANGED <<dbA, dbE, commits, badgeSet, lastApproved>>
           ELSE /\ dbA' = CommitA(s)
                /\ dbE' = CommitE(s)
                /\ commits' = Append(commits, s.status)
                /\ lastApproved' =
                      IF s.status = "approved" /\ dbA[aid].editor_id \in DOMAIN dbE
                      THEN [lastApproved EXCEPT ![dbA[aid].editor_id] =
                                              [seen |-> TRUE, score |-> s.ai_score]]
                      ELSE lastApproved
                /\ badgeSet' = ("badge_level" \in s.dirty)
                /\ sess' = CleanSession
                /\ pc' = "finally"
                /\ UNCHANGED <<err, stage>>
  /\ UNCHANGED <<lastCall, runs, aid, assessment, ai_score, ai_critique, dbOpen,
                 tempFile, mediaState, response, returning, raised,
                 final_status, result, badge0, parsed, closes>>

HandlerUpdateRequeues(s, e) ==
  [s EXCEPT !.dirty = @ \cup {"status", "human_reviewer_notes"},
            !.status = "pending",
            !.notes = ErrorNote(e)]
HandlerUpdateNotesOnly(s, e) ==
  [s EXCEPT !.dirty = @ \cup {"human_reviewer_notes"},
            !.notes = ErrorNote(e)]
HandlerUpdateWithScore(s, e) ==
  [s EXCEPT !.dirty = @ \cup {"status", "human_reviewer_notes", "ai_score"},
            !.status = "rejected",
            !.ai_score = 0,
            !.notes = ErrorNote(e)]
\* lines 132-133
HandlerUpdate(s, e) ==
  [s EXCEPT !.dirty = @ \cup {"status", "human_reviewer_notes"},
            !.status = "rejected",
            !.notes = ErrorNote(e)]
HandlerActsNever(loaded) == FALSE
\* line 131: if assessment
HandlerActs(loaded) == loaded

\* lines 129-134: the except clause, its commit succeeding
Handler ==
  /\ pc = "handler"
  /\ IF HandlerActs(assessment)
     THEN LET s == HandlerUpdate(sess, err)
          IN /\ dbA' = CommitA(s)
             /\ dbE' = CommitE(s)
             /\ commits' = Append(commits, Flushed(dbA[aid], s).status)
             /\ wrote' = wrote \cup (s.dirty \cap AssessmentFields)
             /\ sess' = CleanSession
     ELSE UNCHANGED <<dbA, dbE, commits, wrote, sess>>
  /\ pc' = "finally"
  /\ UNCHANGED <<lastCall, lastApproved, runs, aid, assessment, ai_score, ai_critique, dbOpen, tempFile, mediaState,
                 response, err, returning, raised, final_status, result,
                 badge0, stage, parsed, badgeSet, closes>>

FinalStatusBeforeHandler(loaded, s, row) ==
  IF loaded THEN "processing" ELSE "not_found"
\* line 138: assessment.status read through the session
FinalStatus(loaded, s, row) ==
  IF loaded
  THEN (IF "status" \in s.dirty THEN s.status ELSE row.status)
  ELSE "not_found"

\* lines 32, 142 and a propagating exception: what the caller receives
TaskResult(ret, exc, a, st, sc) ==
  IF exc THEN [kind |-> "exception", assessment_id |-> a, status |-> "", score |-> 0]
  ELSE IF ret THEN [kind |-> "None", assessment_id |-> a, status |-> "", score |-> 0]
  ELSE [kind |-> "record", assessment_id |-> a, status |-> st, score |-> sc]

\* lines 135-142: final_status, db.close(), then the pending return,
\* the propagating exception, or the return of line 142
Finally ==
  /\ pc = "finally"
  /\ LET fs == FinalStatus(assessment, sess,
                           IF aid \in DOMAIN dbA THEN dbA[aid]
                           ELSE [status |-> ""])
     IN /\ final_status' = fs
        /\ result' = TaskResult(returning, raised, aid, fs, ai_score)
  /\ dbOpen' = FALSE
  /\ closes' = closes + 1
  /\ sess' = CleanSession
  /\ pc' = "done"
  /\ UNCHANGED <<lastCall, lastApproved, dbA, dbE, runs, aid, assessment, ai_score, ai_critique, tempFile,
                 mediaState, response, err, returning, raised, commits, wrote,
                 badge0, stage, parsed, badgeSet>>

Next ==
  \/ \E a \in AssessmentIds : Begin(a)
  \/ LoadAbsent
  \/ LoadPresent
  \/ DownloadOk
  \/ DownloadFails
  \/ UploadOk
  \/ UploadFails
  \/ CheckState
  \/ Poll
  \/ PollFails
  \/ GenerateOk
  \/ GenerateFails
  \/ ParseFails
  \/ ParseOk
  \/ Update
  \/ Handler
  \/ Finally

Spec == Init /\ [][Next]_vars

TypeOK ==
  /\ pc \in {"idle", "query", "download", "upload", "check", "sleep",
             "generate", "parse", "update", "handler", "finally", "done"}
  /\ runs \in 0..MaxRuns
  /\ \A a \in DOMAIN dbA :
        dbA[a].status \in {"pending", "processing", "approved", "rejected"}
  /\ tempFile \in {"none", "exists", "deleted"}
  /\ mediaState \in MediaStates
  /\ Len(commits) <= 2


\* ------------------------------------------------ storage commits failing
\* line 36: db.commit() raises; the except clause takes over
LoadCommitFails ==
  /\ pc = "query"
  /\ aid \in DOMAIN dbA
  /\ assessment' = TRUE
  /\ wrote' = wrote \cup (MarkProcessing(sess).dirty \cap AssessmentFields)
  /\ sess' = RolledBack(MarkProcessing(sess))
  /\ Raise("commit failed", "commit")
  /\ UNCHANGED <<lastCall, lastApproved, dbA, dbE, runs, aid, ai_score, ai_critique, dbOpen, tempFile, mediaState,
                 response, returning, raised, final_status, result, commits,
                 badge0, parsed, badgeSet, closes>>

\* line 126: db.commit() raises after the assignments of lines 113-124
UpdateCommitFails ==
  /\ pc = "update"
  /\ LET found == EditorFound(aid)
         s == StateUpdate(sess, ai_score, ai_critique, found)
     IN /\ ~ (Passes(ai_score) /\ BadgeWrite(found, ai_score).raises)
        /\ wrote' = wrote \cup (s.dirty \cap AssessmentFields)
        /\ badgeSet' = ("badge_level" \in s.dirty)
        /\ sess' = RolledBack(s)
  /\ Raise("commit failed", "commit")
  /\ UNCHANGED <<lastCall, lastApproved, dbA, dbE, runs, aid, assessment, ai_score, ai_critique,
                 dbOpen, tempFile, mediaState, response, returning, raised,
                 final_status, result, commits, badge0, parsed,
                 closes>>

\* line 134: db.commit() raises inside the except clause; the exception
\* propagates through finally
HandlerCommitFails ==
  /\ pc = "handler"
  /\ HandlerActs(assessment)
  /\ LET s == HandlerUpdate(sess, err)
     IN /\ wrote' = wrote \cup (s.dirty \cap AssessmentFields)
        /\ sess' = RolledBack(s)
  /\ raised' = TRUE
  /\ pc' = "finally"
  /\ UNCHANGED <<lastCall, lastApproved, dbA, dbE, runs, aid, assessment, ai_score, ai_critique, dbOpen, tempFile,
                 mediaState, response, err, returning, final_status, result,
                 commits, badge0, stage, parsed, badgeSet, closes>>

\* line 138: every commit or rollback expires the loaded record, so reading
\* assessment.status in the finally clause queries storage again; when
\* that query raises, line 139 is skipped and the exception leaves the task
FinallyRefreshFails ==
  /\ pc = "finally"
  /\ assessment
  /\ raised' = TRUE
  /\ result' = TaskResult(returning, TRUE, aid, final_status, ai_score)
  /\ pc' = "done"
  /\ UNCHANGED <<lastCall, lastApproved, dbA, dbE, runs, aid, assessment, ai_score,
                 ai_critique, sess, dbOpen, tempFile, mediaState, response,
                 err, returning, final_status, commits, wrote, badge0, stage,
                 parsed, badgeSet, closes>>

NextFault ==
  \/ Next
  \/ LoadCommitFails
  \/ UpdateCommitFails
  \/ HandlerCommitFails
  \/ FinallyRefreshFails

\* storage commits may fail
SpecFault == Init /\ [][NextFault]_vars

\* the worker keeps executing the task body: every call returns or raises
FairSpec == Spec /\ WF_vars(Next)

\* the same with storage commits that may fail
FairSpecFault == SpecFault /\ WF_vars(NextFault)


\* ------------------------------------------------------------- properties
Done == pc = "done"
Exists == aid \in DOMAIN dbA
Row == dbA[aid]
LastCommit == commits[Len(commits)]
Terminal == {"approved", "rejected"}
TerminalCommits == {i \in 1..Len(commits) : commits[i] \in Terminal}
StageFailures == {"download", "upload", "media", "inference", "parse"}

\* C1: an execution for an id with no record commits nothing, assigns
\* nothing, and hands the dispatcher a result record with status not_found.
C1_NotFoundResult ==
  (Done /\ ~ Exists) =>
     /\ commits = <<>>
     /\ wrote = {}
     /\ result.kind = "record"
     /\ result.status = "not_found"

\* C2: when the record was loaded and the download, the upload, the media
\* readiness, the inference or the parsing raised, the last status the
\* execution committed is rejected, the stored notes are the error
\* description, and the stored status is not processing.
C2_FailureEndsRejected ==
  (Done /\ stage \in StageFailures) =>
     /\ assessment
     /\ commits # <<>>
     /\ LastCommit = "rejected"
     /\ Row.status = "rejected"
     /\ Row.human_reviewer_notes = [kind |-> "error", text |-> err]
C2_Witness ==
  /\ Done
  /\ stage = "download"
  /\ commits = <<"processing", "rejected">>
  /\ Row.human_reviewer_notes.kind = "error"

\* C3: when a verdict was parsed, the final committed status is approved
\* exactly when the score is at least 0.75, and rejected below it.
C3_ThresholdDecides ==
  (Done /\ parsed) =>
     /\ LastCommit \in Terminal
     /\ Row.status = LastCommit
     /\ (Row.status = "approved") <=> (ai_score >= PassScore)
     /\ (Row.status = "rejected") <=> (ai_score < PassScore)
C3_Witness ==
  /\ Done
  /\ parsed
  /\ ai_score = PassScore
  /\ Row.status = "approved"

\* C4: on an approval whose editor is found, the stored badge_level is the
\* band of the score alone: 3 above 0.92, 2 above 0.82 up to 0.92, else 1.
C4_BadgeBands ==
  (Done /\ parsed /\ ai_score >= PassScore /\ Row.editor_id \in DOMAIN dbE) =>
     /\ badgeSet
     /\ ai_score > Badge3Above => dbE[Row.editor_id] = 3
     /\ (ai_score > Badge2Above /\ ai_score <= Badge3Above)
           => dbE[Row.editor_id] = 2
     /\ ai_score <= Badge2Above => dbE[Row.editor_id] = 1
C4_Witness ==
  /\ Done
  /\ badgeSet
  /\ ai_score = Badge3Above
  /\ badge0[Row.editor_id] = 3
  /\ dbE[Row.editor_id] = 2

C6_ApprovedWithoutEditor ==
  (Done /\ parsed /\ ai_score >= PassScore /\ Row.editor_id \notin DOMAIN dbE) =>
     /\ LastCommit = "approved"
     /\ Row.status = "approved"
     /\ Row.ai_score = ai_score
     /\ Row.human_reviewer_notes.kind = "critique"
     /\ ~ badgeSet
     /\ dbE = badge0
     /\ stage = "none"
     /\ result.kind = "record"
     /\ result.status = "approved"
C6_Witness ==
  /\ Done
  /\ parsed
  /\ Row.editor_id \notin DOMAIN dbE
  /\ Row.status = "approved"
  /\ Row.human_reviewer_notes = [kind |-> "critique", text |-> "Good"]

\* C7: an execution never commits a terminal status twice; when it has
\* ended it committed one exactly once if the record exists, never if not.
C7_OneTerminalCommit ==
  /\ Cardinality(TerminalCommits) <= 1
  /\ Done => Cardinality(TerminalCommits) = (IF Exists THEN 1 ELSE 0)
C7_Witness ==
  /\ Done
  /\ stage = "parse"
  /\ commits = <<"processing", "rejected">>

\* C8 as stated: an execution assigns ai_score exactly when it assigns
\* human_reviewer_notes.
C8_ScoreAndNotesTogether ==
  Done => (("ai_score" \in wrote) <=> ("human_reviewer_notes" \in wrote))

\* C8 amended: on an existing record the notes are always assigned; ai_score
\* is assigned with them exactly when a verdict was parsed, and the except
\* clause assigns the notes without ai_score, whose stored value it keeps.
C8_NotesAlwaysScoreOnVerdict ==
  (Done /\ Exists) =>
     /\ "human_reviewer_notes" \in wrote
     /\ ("ai_score" \in wrote) <=> parsed
     /\ ~ parsed => Row.human_reviewer_notes.kind = "error"
C8_Witness ==
  /\ Done
  /\ stage = "upload"
  /\ wrote = {"status", "human_reviewer_notes"}
  /\ Row.human_reviewer_notes.kind = "error"

\* C9: no temporary file created by the execution exists when it has ended.
C9_NoTempFileAtEnd ==
  Done => tempFile # "exists"

\* C10 as stated: every execution that starts eventually ends.
C10_AlwaysEnds ==
  (pc = "query") ~> Done

\* C10 amended: an execution either stays in the readiness loop for ever
\* (the provider keeps reporting PROCESSING) or ends; when it has ended
\* without an exception leaving the task, its final status is exactly one
\* of approved, rejected, not_found.
C10_EndsUnlessPollingForever ==
  /\ []((Done /\ ~ raised) =>
          final_status \in {"approved", "rejected", "not_found"})
  /\ \/ <>[](pc \in {"check", "sleep"})
     \/ []<>(pc \in {"idle", "done"})
C10_Witness ==
  /\ Done
  /\ lastCall = "get_file"
  /\ mediaState = "FAILED"
  /\ final_status = "rejected"


\* C11: when an execution has ended, its session was closed exactly once
\* and is no longer open, whichever path it took.
C11_ClosedExactlyOnce ==
  Done => (closes = 1 /\ ~ dbOpen)


\* C12: the stored ai_score of every assessment lies between 0.0 and 1.0,
\* whatever score the model put in its reply.
C12_StoredScoreInRange ==
  \A a \in DOMAIN dbA : dbA[a].ai_score >= 0 /\ dbA[a].ai_score <= 100


\* C13: for a reply that is a verdict object wrapped in a markdown fence,
\* the parse succeeds and yields the score and the critique that the parser
\* yields for the object without the fence.
C13_FenceTransparent ==
  \A o \in VerdictObjects :
     (response \in FenceWraps(o) /\ pc \notin {"generate", "parse"}) =>
        /\ Verdicts[o].ok
        /\ parsed
        /\ stage # "parse"
        /\ ai_score = Verdicts[o].score
        /\ ai_critique = Verdicts[o].critique
C13_Witness ==
  /\ pc = "update"
  /\ response = Fenced(Obj(<<ScoreMember(85), CritMember(1)>>))
  /\ ai_score = 85
  /\ ai_critique = "Good"


HasMember(text, kinds) == \E i \in 1..Len(text) : text[i].k \in kinds
NotAnObject(text) ==
  LET t == Unfence(text) IN t = <<>> \/ t[1].k # "{"
Answered == response # <<>> /\ pc \notin {"generate", "parse"}

\* C14: a reply that does not begin with an opening brace after trimming and
\* fence stripping makes the parse raise the format error with no recovery:
\* no score is extracted, ai_score is not assigned, the final status is
\* rejected.  A parsed object without a critique key yields the default
\* critique; one without a score key yields score 0.0 and status rejected.
C14_ParseFailureAndDefaults ==
  /\ (Answered /\ NotAnObject(response)) =>
        /\ stage = "parse"
        /\ err = "AI response is not in the expected JSON format."
        /\ ~ parsed
        /\ ai_score = 0
        /\ "ai_score" \notin wrote
        /\ Done => (Row.status = "rejected" /\ LastCommit = "rejected")
  /\ (Answered /\ parsed /\ ~ HasMember(response, {"critique"})) =>
        /\ ai_critique = "No critique provided."
        /\ Done => Row.human_reviewer_notes =
                      [kind |-> "critique", text |-> "No critique provided."]
  /\ (Answered /\ parsed /\ ~ HasMember(response, {"score", "scoreNaN"})) =>
        /\ ai_score = 0
        /\ Done => (Row.status = "rejected" /\ Row.ai_score = 0)
C14_Witness ==
  /\ Done
  /\ response = <<Ch("txt"), Ch("txt")>>
  /\ stage = "parse"
  /\ Row.status = "rejected"
  /\ wrote = {"status", "human_reviewer_notes"}


\* C15: no download, upload, status poll or inference request is made
\* before the commit of status processing, and that commit is a separate
\* one from the terminal commit that ends the execution.
C15_ProcessingCommittedFirst ==
  /\ lastCall # "none" => (commits # <<>> /\ commits[1] = "processing")
  /\ (Done /\ Exists) =>
        /\ Len(commits) = 2
        /\ commits[1] = "processing"
        /\ commits[2] \in Terminal
C15_Witness ==
  /\ pc = "upload"
  /\ lastCall = "download"
  /\ commits = <<"processing">>
  /\ Row.status = "processing"


\* C16: the inference request is sent only when the state observed last is
\* ACTIVE; while it is PROCESSING the job only sleeps and polls again; any
\* other state makes the job fail without an inference request and end
\* rejected with notes that carry that state.
C16_ReadinessGate ==
  /\ (pc = "generate" \/ lastCall = "generate") => mediaState = "ACTIVE"
  /\ pc = "sleep" => (mediaState = "PROCESSING" /\ lastCall \in {"upload", "get_file"})
  /\ (pc \notin {"check", "sleep"} /\ lastCall \in {"upload", "get_file", "generate"}
        /\ stage # "upload"
        /\ mediaState = "PROCESSING") =>
        (stage = "media" /\ err = "get_file failed")
  /\ \A st \in {"FAILED", "STATE_UNSPECIFIED"} :
        (pc \notin {"check", "sleep"} /\ mediaState = st /\ stage = "media"
           /\ err # "get_file failed") =>
           /\ lastCall # "generate"
           /\ err = MediaError(st)
           /\ Done =>
                /\ Row.status = "rejected"
                /\ Row.human_reviewer_notes.kind = "error"
                /\ Row.human_reviewer_notes.text =
                      (IF st = "FAILED"
                       THEN "File processing failed. Final state: FAILED"
                       ELSE "File processing failed. Final state: STATE_UNSPECIFIED")
  /\ (pc \notin {"check", "sleep"} /\ lastCall \in {"upload", "get_file", "generate"}
        /\ stage # "upload"
        /\ mediaState \in {"FAILED", "STATE_UNSPECIFIED"}) =>
        (stage = "media" /\ lastCall # "generate")
C16_Witness ==
  /\ Done
  /\ lastCall = "get_file"
  /\ mediaState = "STATE_UNSPECIFIED"
  /\ lastCall # "generate"
  /\ Row.status = "rejected"
  /\ Row.human_reviewer_notes.text =
        "File processing failed. Final state: STATE_UNSPECIFIED"


C18_BadgeIsLastApprovedBand ==
  \A e \in DOMAIN dbE :
     dbE[e] = IF ~ lastApproved[e].seen THEN 0
              ELSE IF lastApproved[e].score > Badge3Above THEN 3
              ELSE IF lastApproved[e].score > Badge2Above THEN 2
              ELSE 1
C18_Witness ==
  /\ Done
  /\ aid = "a2"
  /\ Row.status = "approved"
  /\ dbA["a1"].status = "approved"
  /\ "e1" \in DOMAIN dbE
  /\ badge0["e1"] = 3
  /\ dbE["e1"] = 1


====
